---- MODULE Spec2Model ----
(***************************************************************************)
(* A model of the daily-quote application: the date-keyed quote resolution *)
(* and caching policy (loadQuoteByDate / generateQuoteOfDay), the random   *)
(* key selection (getRandomQuoteKey) and the sequential "book" navigation  *)
(* (handleBookNavigate / getDateFromKey), the favorites (toggleFavorite)   *)
(* and the dated notes with their signature (handleOpenNote /              *)
(* handleSaveNote / DATE_SIGNATURE_REGEX).                                 *)
(*                                                                         *)
(* The repository holds two generations of the application component in    *)
(* src/unnamed/part_000 (lines 1-349 and lines 350-979); the variable      *)
(* `variant` says which of the two is running ("A" is lines 1-349, "B" is  *)
(* lines 350-979).  The two copies of services/geminiService.ts behave     *)
(* alike and are modelled once.                                            *)
(***************************************************************************)
EXTENDS Integers, Sequences, FiniteSets, TLC

VARIABLES
  variant,          \* which App component runs: "A" or "B"
  today,            \* new Date(): the calendar day of the session, [y, m, d]
  FIXED_QUOTES,     \* services/quotesData: key string -> quote text
  cache,            \* localStorage entries quote_cache_v5_<m>_<d>: <<m,d>> -> JSON text
  bookmark,         \* localStorage entry last_read_page_v1 (Null when absent)
  currentQuote,     \* React state currentQuote (NoQuote is null)
  selectedDateKey,  \* React state selectedDateKey (Null is null)
  loading,          \* React state loading
  viewMode,         \* React state viewMode
  readingMode,      \* React state readingMode
  mounted,          \* the mount effect has run
  pending,          \* resolutions suspended on  await generateQuoteOfDay(...)
  genCalls,         \* number of calls of generateQuoteOfDay so far
  ops,              \* number of user operations so far
  resolved,         \* <<m,d>> -> the quote the latest completed generation stored
  favorites,        \* React state favorites: the list of StoredQuote
  notes,            \* React state notes: ISO date -> note text, in insertion order
  storedFavorites,  \* localStorage entry favorite_quotes_v2 (Null when absent)
  storedNotes,      \* localStorage entry user_notes_v1 (Null when absent)
  noteText,         \* React state noteText: the text in the note editor
  isNoteModalOpen,  \* React state isNoteModalOpen
  openedFor,        \* the ISO date the note editor was last opened on (Null: never)
  latest,           \* the resolution initiated most recently, and its result
  last              \* what the latest step did

\* the favorites and the notes, in memory and persisted, and the note editor
journal == <<favorites, notes, storedFavorites, storedNotes, noteText, isNoteModalOpen,
            openedFor>>

vars == <<variant, today, FIXED_QUOTES, cache, bookmark, currentQuote,
          selectedDateKey, loading, viewMode, readingMode, mounted, pending,
          genCalls, ops, resolved, favorites, notes, storedFavorites,
          storedNotes, noteText, isNoteModalOpen, openedFor, latest, last>>

-----------------------------------------------------------------------------
(* Bounds of the model *)

\* user operations (clicks, direct calls) in one behaviour
MaxOps == 3

\* calls of generateQuoteOfDay in one behaviour
MaxGen == 2

\* Math.random() in [0, 1) is num / RandomGrain, num in 0..RandomGrain-1
RandomGrain == 4

-----------------------------------------------------------------------------
(* Strings.  A string the program splits or matches is a sequence of       *)
(* one-character strings; numbers are printed and parsed digit by digit.   *)

DigitChars == <<"0", "1", "2", "3", "4", "5", "6", "7", "8", "9">>

IsDigit(c) == \E i \in 1..10 : DigitChars[i] = c

DigitValue(c) == (CHOOSE i \in 1..10 : DigitChars[i] = c) - 1

\* template literal `${n}` of a non-negative integer
RECURSIVE NumberToString(_)
NumberToString(n) ==
  IF n < 10 THEN <<DigitChars[n + 1]>>
  ELSE NumberToString(n \div 10) \o <<DigitChars[(n % 10) + 1]>>

NaN == -1

\* Number(s) for a string of decimal digits ("02" is 2, "" is 0); NaN otherwise
RECURSIVE DigitsValue(_, _)
DigitsValue(s, acc) ==
  IF s = <<>> THEN acc
  ELSE DigitsValue(Tail(s), acc * 10 + DigitValue(Head(s)))

Number(s) ==
  IF \A i \in 1..Len(s) : IsDigit(s[i]) THEN DigitsValue(s, 0) ELSE NaN

\* s.split('/'): the pieces between the separators
RECURSIVE Split(_, _)
Split(s, sep) ==
  IF \A i \in 1..Len(s) : s[i] # sep THEN <<s>>
  ELSE LET i == CHOOSE j \in 1..Len(s) :
                   s[j] = sep /\ \A k \in 1..(j - 1) : s[k] # sep
       IN <<SubSeq(s, 1, i - 1)>> \o Split(SubSeq(s, i + 1, Len(s)), sep)

\* `${month}/${day}`
DateKeyOf(month, day) == NumberToString(month) \o <<"/">> \o NumberToString(day)

\* the white space String.prototype.trim removes
IsSpace(c) == c \in {" ", "\n", "\t"}

\* s.trim()
RECURSIVE Trim(_)
Trim(s) ==
  IF s = <<>> THEN s
  ELSE IF IsSpace(Head(s)) THEN Trim(Tail(s))
  ELSE IF IsSpace(s[Len(s)]) THEN Trim(SubSeq(s, 1, Len(s) - 1))
  ELSE s

\* s.padStart(targetLength, c)
RECURSIVE PadStart(_, _, _)
PadStart(s, targetLength, c) ==
  IF Len(s) >= targetLength THEN s ELSE PadStart(<<c>> \o s, targetLength, c)

-----------------------------------------------------------------------------
(* The JavaScript Date: a calendar day [y, m, d], m in 1..12.              *)

IsLeapYear(y) == (y % 4 = 0 /\ y % 100 # 0) \/ y % 400 = 0

DaysInMonth(y, m) ==
  IF m = 2 THEN (IF IsLeapYear(y) THEN 29 ELSE 28)
  ELSE IF m \in {4, 6, 9, 11} THEN 30 ELSE 31

\* the day the Date object settles on when its day field is set to d, which
\* may lie outside the month: 0 is the last day of the month before, 32 of
\* a 31-day month is the 1st of the month after
RECURSIVE MakeDay(_, _, _)
MakeDay(y, m, d) ==
  IF d < 1 THEN
    (IF m = 1 THEN MakeDay(y - 1, 12, d + 31)
     ELSE MakeDay(y, m - 1, d + DaysInMonth(y, m - 1)))
  ELSE IF d > DaysInMonth(y, m) THEN
    (IF m = 12 THEN MakeDay(y + 1, 1, d - 31)
     ELSE MakeDay(y, m + 1, d - DaysInMonth(y, m)))
  ELSE [y |-> y, m |-> m, d |-> d]

\* date.setMonth(monthIndex), monthIndex in 0..11: the day of the month is
\* kept, and overflows into the next month when the new month is shorter
SetMonth(date, monthIndex) == MakeDay(date.y, monthIndex + 1, date.d)

\* date.setDate(day)
SetDate(date, day) == MakeDay(date.y, date.m, day)

GetMonth(date) == date.m - 1

GetDate(date) == date.d

GetFullYear(date) == date.y

\* getLocalDateString(date): `${year}-${month}-${day}`, month and day padded
getLocalDateString(date) ==
  LET year == GetFullYear(date)
      month == PadStart(NumberToString(GetMonth(date) + 1), 2, "0")
      day == PadStart(NumberToString(GetDate(date)), 2, "0")
  IN NumberToString(year) \o <<"-">> \o month \o <<"-">> \o day

-----------------------------------------------------------------------------
(* Quotes and their JSON text.  Every string is a sequence of characters;  *)
(* the empty string is <<>>.                                               *)

Null == <<>>

NoQuote == [null |-> TRUE]

Quote(text, author, meaning, tags) ==
  [quote |-> text, author |-> author, meaning |-> meaning, tags |-> tags]

\* JSON.stringify of a Quote object
JSONStringify(q) == <<"{", q.quote, q.author, q.meaning, q.tags, "}">>

\* does JSON.parse accept the text (it throws a SyntaxError otherwise)
JSONParses(t) == Len(t) = 6 /\ t[1] = "{" /\ t[6] = "}"

\* JSON.parse(t) as Quote, for a text it accepts
JSONParse(t) == Quote(t[2], t[3], t[4], t[5])

\* the quote returned when generation fails
FallbackQuote == Quote(<<"F", "B">>, <<>>, <<>>, <<>>)

-----------------------------------------------------------------------------
(* services/quotesData: FIXED_QUOTES, an object from "M/D" to quote text,  *)
(* here the sequence of its entries <<key, text>> in insertion order.      *)

FixedText(m, d) == <<"Q">> \o DateKeyOf(m, d)

DatasetOf(days) ==
  [i \in 1..Len(days) |-> <<DateKeyOf(days[i][1], days[i][2]),
                            FixedText(days[i][1], days[i][2])>>]

\* the datasets the model runs with: none, and a curated few days
Datasets ==
  { DatasetOf(<<>>),
    DatasetOf(<<<<1, 31>>, <<3, 1>>>>) }

\* Object.keys(obj)
ObjectKeys(obj) == [i \in 1..Len(obj) |-> obj[i][1]]

HasKey(obj, key) == \E i \in 1..Len(obj) : obj[i][1] = key

\* obj[key] for a key the object has
Get(obj, key) == obj[CHOOSE i \in 1..Len(obj) : obj[i][1] = key][2]

\* the test  if (FIXED_QUOTES[dateKey])  : defined and not the empty string
HasFixed(obj, key) == HasKey(obj, key) /\ Get(obj, key) # <<>>

-----------------------------------------------------------------------------
(* services/geminiService.ts *)

\* getRandomQuoteKey reading Object.values instead of Object.keys
getRandomQuoteKeyValues(obj, r) ==
  IF Len(obj) = 0 THEN <<"1", "/", "1">>
  ELSE obj[((r * Len(obj)) \div RandomGrain) + 1][2]

\* getRandomQuoteKey falling back to a zero-padded key
getRandomQuoteKeyPadded(obj, r) ==
  LET keys == ObjectKeys(obj)
  IN IF Len(keys) = 0 THEN <<"0", "1", "/", "0", "1">>
     ELSE keys[((r * Len(keys)) \div RandomGrain) + 1]

\* getRandomQuoteKey, r the numerator of Math.random()
getRandomQuoteKey(obj, r) ==
  LET keys == ObjectKeys(obj)
  IN IF Len(keys) = 0 THEN <<"1", "/", "1">>
     ELSE LET randomIndex == (r * Len(keys)) \div RandomGrain
          IN keys[randomIndex + 1]

\* what ai.models.generateContent does: it rejects, or it resolves with a
\* response whose text is "", is not JSON, or is the JSON of a quote
AiQuotes ==
  { Quote(<<"A", "1">>, <<"a">>, <<"m">>, <<<<"t">>>>),
    Quote(<<"A", "2">>, <<"b">>, <<"n">>, <<>>) }

AiResponses ==
  { [rejected |-> TRUE, text |-> <<>>],
    [rejected |-> FALSE, text |-> <<>>],
    [rejected |-> FALSE, text |-> <<"{">>] }
  \cup { [rejected |-> FALSE, text |-> JSONStringify(q)] : q \in AiQuotes }

\* the try block of generateQuoteOfDay throws
AiFails(response) ==
  response.rejected \/ response.text = <<>> \/ ~JSONParses(response.text)

\* generateQuoteOfDay whose fallback quote names an author
generateQuoteOfDayWithAuthor(obj, date, response) ==
  LET dateKey == DateKeyOf(GetMonth(date) + 1, GetDate(date))
  IN IF HasFixed(obj, dateKey)
     THEN [quote |-> Quote(Get(obj, dateKey), <<>>, <<>>, <<>>), ai |-> FALSE]
     ELSE IF response.rejected \/ response.text = <<>> \/ ~JSONParses(response.text)
     THEN [quote |-> Quote(<<"F", "B">>, <<"?">>, <<>>, <<>>), ai |-> TRUE]
     ELSE [quote |-> JSONParse(response.text), ai |-> TRUE]

\* generateQuoteOfDay(date), response the outcome of the AI call if made:
\* the quote returned and whether the AI was called
generateQuoteOfDay(obj, date, response) ==
  LET month == GetMonth(date) + 1
      day == GetDate(date)
      dateKey == DateKeyOf(month, day)
  IN IF HasFixed(obj, dateKey)
     THEN [quote |-> Quote(Get(obj, dateKey), <<>>, <<>>, <<>>), ai |-> FALSE]
     ELSE IF AiFails(response)
     THEN [quote |-> FallbackQuote, ai |-> TRUE]
     ELSE [quote |-> JSONParse(response.text), ai |-> TRUE]

-----------------------------------------------------------------------------
(* The App component: helpers *)

\* getDateFromKey(key), now the value of new Date()
getDateFromKey(key, now) ==
  LET parts == Split(key, "/")
      month == Number(parts[1])
      day == Number(parts[2])
  IN SetDate(SetMonth(now, month - 1), day)

\* `${date.getMonth() + 1}/${date.getDate()}`
KeyOfDate(date) == DateKeyOf(GetMonth(date) + 1, GetDate(date))

\* the pair <<month, day>> of  quote_cache_v5_${month}_${day}
CacheKey(date) == <<GetMonth(date) + 1, GetDate(date)>>

\* a cache read that never finds the entry
CachedNever(c, date) == FALSE

\* localStorage.getItem(cacheKey) is a non-empty string
Cached(c, date) == CacheKey(date) \in DOMAIN c /\ c[CacheKey(date)] # <<>>

\* localStorage.setItem keeping the value of a key that is already set
SetItemIfAbsent(c, k, text) ==
  [x \in DOMAIN c \cup {k} |-> IF x \in DOMAIN c THEN c[x] ELSE text]

\* localStorage.setItem(cacheKey, text)
SetItem(c, k, text) == [x \in DOMAIN c \cup {k} |-> IF x = k THEN text ELSE c[x]]

-----------------------------------------------------------------------------
(* The notes and the favorites: the texts and the stored values *)

\* the character U+2014 of the signature, one character of the text
EmDash == "--"

\* what DATE_SIGNATURE_REGEX matches before the year
SignaturePrefix == <<"\n", "\n", " ", EmDash, " ">>

AllDigits(s, from, to) == \A i \in from..to : IsDigit(s[i])

\* the whole of s is  \n\n -- \d{4}\. \d{1,2}\. \d{1,2}\.
IsSignature(s) ==
  \E a \in 1..2 : \E b \in 1..2 :
    /\ Len(s) = 14 + a + b
    /\ SubSeq(s, 1, 5) = SignaturePrefix
    /\ AllDigits(s, 6, 9)
    /\ s[10] = "." /\ s[11] = " "
    /\ AllDigits(s, 12, 11 + a)
    /\ s[12 + a] = "." /\ s[13 + a] = " "
    /\ AllDigits(s, 14 + a, 13 + a + b)
    /\ s[14 + a + b] = "."

\* text.match(DATE_SIGNATURE_REGEX): where the match starts, 0 for no match;
\* the pattern ends with $, so a match runs to the end of the text
SignatureMatch(text) ==
  IF \E i \in 1..Len(text) : IsSignature(SubSeq(text, i, Len(text)))
  THEN CHOOSE i \in 1..Len(text) :
         /\ IsSignature(SubSeq(text, i, Len(text)))
         /\ \A j \in 1..(i - 1) : ~IsSignature(SubSeq(text, j, Len(text)))
  ELSE 0

\* the replacement with a pattern asking for two-digit months and days
stripSignaturePadded(text) ==
  LET i == SignatureMatch(text)
  IN IF i # 0 /\ Len(text) - i + 1 = 18 THEN SubSeq(text, 1, i - 1) ELSE text

\* the replacement with a pattern that is not anchored at the end: the
\* first occurrence of the signature is cut out wherever it stands
stripSignatureAnywhere(text) ==
  IF \E i \in 1..Len(text) : \E j \in i..Len(text) : IsSignature(SubSeq(text, i, j))
  THEN LET i == CHOOSE k \in 1..Len(text) :
                  /\ \E j \in k..Len(text) : IsSignature(SubSeq(text, k, j))
                  /\ \A h \in 1..(k - 1) :
                        \A j \in h..Len(text) : ~IsSignature(SubSeq(text, h, j))
           j == CHOOSE k \in i..Len(text) :
                  /\ IsSignature(SubSeq(text, i, k))
                  /\ \A h \in (k + 1)..Len(text) : ~IsSignature(SubSeq(text, i, h))
       IN SubSeq(text, 1, i - 1) \o SubSeq(text, j + 1, Len(text))
  ELSE text

\* text.replace(DATE_SIGNATURE_REGEX, '')
stripSignature(text) ==
  LET i == SignatureMatch(text)
  IN IF i = 0 THEN text ELSE SubSeq(text, 1, i - 1)

\* the signature written with padded month and day
appendSignaturePadded(text, now) ==
  text \o SignaturePrefix \o NumberToString(GetFullYear(now)) \o <<".", " ">>
       \o PadStart(NumberToString(GetMonth(now) + 1), 2, "0") \o <<".", " ">>
       \o PadStart(NumberToString(GetDate(now)), 2, "0") \o <<".">>

\* text + `\n\n -- ${now.getFullYear()}. ${now.getMonth() + 1}. ${now.getDate()}.`
appendSignature(text, now) ==
  text \o SignaturePrefix \o NumberToString(GetFullYear(now)) \o <<".", " ">>
       \o NumberToString(GetMonth(now) + 1) \o <<".", " ">>
       \o NumberToString(GetDate(now)) \o <<".">>

\* notes[key] || ''
NoteOf(obj, key) == IF HasKey(obj, key) THEN Get(obj, key) ELSE <<>>

\* { [key]: text } without the spread of obj: the other entries are lost
AssignAlone(obj, key, text) == <<<<key, text>>>>

\* { ...obj, [key]: text }: an existing key keeps its place, a new one is last
Assign(obj, key, text) ==
  IF HasKey(obj, key)
  THEN [i \in 1..Len(obj) |-> IF obj[i][1] = key THEN <<key, text>> ELSE obj[i]]
  ELSE Append(obj, <<key, text>>)

\* the entry kept with an empty text instead of deleted
DeleteAsEmpty(obj, key) ==
  IF HasKey(obj, key)
  THEN [i \in 1..Len(obj) |-> IF obj[i][1] = key THEN <<key, <<>>>> ELSE obj[i]]
  ELSE obj

\* delete obj[key]
Delete(obj, key) ==
  LET Keep(entry) == entry[1] # key
  IN SelectSeq(obj, Keep)

\* JSON.stringify and JSON.parse of the notes object and of the favorites array
JSONStringifyObject(obj) == <<"{">> \o obj \o <<"}">>

JSONParseObject(t) == SubSeq(t, 2, Len(t) - 1)

JSONStringifyArray(list) == <<"[">> \o list \o <<"]">>

JSONParseArray(t) == SubSeq(t, 2, Len(t) - 1)

\* favorites.some(f => f.data.quote === quote.quote)
IsSaved(favs, quote) == \E i \in 1..Len(favs) : favs[i].data.quote = quote.quote

\* favorites.filter(f => f.data.quote !== text)
WithoutQuote(favs, text) ==
  LET Keep(f) == f.data.quote # text
  IN SelectSeq(favs, Keep)

\* the StoredQuote toggleFavorite builds; at is Date.now(), a clock that the
\* user's operations advance
StoredQuote(quote, sel, now, at) ==
  [data |-> quote,
   date |-> IF sel # Null THEN getLocalDateString(getDateFromKey(sel, now))
            ELSE getLocalDateString(now),
   viewedAt |-> at]

\* toggleFavorite taking the date, not the text, for the identity of an entry
newFavoritesByDate(favs, quote, sel, now, at) ==
  LET entry == StoredQuote(quote, sel, now, at)
      Keep(f) == f.date # entry.date
  IN IF \E i \in 1..Len(favs) : favs[i].date = entry.date
     THEN SelectSeq(favs, Keep)
     ELSE Append(favs, entry)

\* toggleFavorite putting a new entry first
newFavoritesFirst(favs, quote, sel, now, at) ==
  IF IsSaved(favs, quote) THEN WithoutQuote(favs, quote.quote)
  ELSE <<StoredQuote(quote, sel, now, at)>> \o favs

\* toggleFavorite removing the newest entry instead of the one with the text
newFavoritesDropLast(favs, quote, sel, now, at) ==
  IF IsSaved(favs, quote) THEN SubSeq(favs, 1, Len(favs) - 1)
  ELSE Append(favs, StoredQuote(quote, sel, now, at))

\* newFavorites of toggleFavorite
newFavorites(favs, quote, sel, now, at) ==
  IF IsSaved(favs, quote) THEN WithoutQuote(favs, quote.quote)
  ELSE Append(favs, StoredQuote(quote, sel, now, at))

-----------------------------------------------------------------------------
(* The state after construction *)

\* the days the session may run on
Todays ==
  { [y |-> 2023, m |-> 1, d |-> 31],
    [y |-> 2024, m |-> 2, d |-> 28] }

EmptyStore == [k \in {} |-> <<>>]

\* a quote an earlier session left in the cache
StaleQuote == Quote(<<"S">>, <<"s">>, <<>>, <<>>)

\* localStorage at the start: empty on a first visit, or what an earlier
\* session left there, a cache entry and the bookmark
InitialStores ==
  { [cache |-> EmptyStore, bookmark |-> Null],
    [cache |-> SetItem(EmptyStore, <<3, 1>>, JSONStringify(StaleQuote)),
     bookmark |-> <<"3", "/", "1">>] }

\* a day of the earlier session
EarlierDay(now) == [y |-> now.y, m |-> 1, d |-> 5]

\* the notes the earlier session left: one note, written for 3/1
InitialNotes(store, now) ==
  IF store.bookmark = Null THEN Null
  ELSE JSONStringifyObject(
         <<<<getLocalDateString(getDateFromKey(store.bookmark, EarlierDay(now))),
             appendSignature(<<"o", "l", "d">>, EarlierDay(now))>>>>)

\* the favorites the earlier session left: three quotes it displayed
InitialFavorites(store, now) ==
  IF store.bookmark = Null THEN Null
  ELSE JSONStringifyArray(
         <<StoredQuote(StaleQuote, store.bookmark, EarlierDay(now), 0),
           StoredQuote(FallbackQuote, Null, EarlierDay(now), 0),
           StoredQuote(Quote(<<"A", "1">>, <<"a">>, <<"m">>, <<<<"t">>>>),
                       <<"1", "/", "1">>, EarlierDay(now), 0)>>)

Init ==
  /\ variant \in {"A", "B"}
  /\ today \in Todays
  /\ FIXED_QUOTES \in Datasets
  /\ \E store \in InitialStores :
       /\ cache = store.cache
       /\ bookmark = store.bookmark
       /\ storedNotes = InitialNotes(store, today)
       /\ storedFavorites = InitialFavorites(store, today)
  /\ favorites = <<>>
  /\ notes = <<>>
  /\ noteText = <<>>
  /\ isNoteModalOpen = FALSE
  /\ openedFor = Null
  /\ latest = [key |-> Null, id |-> 0, quote |-> NoQuote]
  /\ currentQuote = NoQuote
  /\ selectedDateKey = Null
  /\ loading = TRUE
  /\ viewMode = "main"
  /\ readingMode = "daily"
  /\ mounted = FALSE
  /\ pending = {}
  /\ genCalls = 0
  /\ ops = 0
  /\ resolved = EmptyStore
  /\ last = [op |-> "init", key |-> Null, ck |-> <<>>, force |-> FALSE,
             silent |-> FALSE, branch |-> "None", cacheBefore |-> cache,
             genBefore |-> 0, from |-> Null, dir |-> "none", arg |-> Null,
             quote |-> NoQuote, id |-> 0]

-----------------------------------------------------------------------------
(* loadQuoteByDate *)

\* the quote built from the fixed dataset
FixedQuote(obj, dateKey) == Quote(Get(obj, dateKey), <<>>, <<>>, <<>>)

\* the cache after the fixed branch: variant B stores the fixed quote
CacheAfterFixed(v, c, ck, fixedQuote) ==
  IF v = "B" THEN SetItem(c, ck, JSONStringify(fixedQuote)) ELSE c

\* loadQuoteByDate testing the cache before the fixed dataset
BranchCacheFirst(obj, c, targetDate, forceRefresh) ==
  IF ~forceRefresh /\ Cached(c, targetDate) THEN "Cached"
  ELSE IF HasFixed(obj, KeyOfDate(targetDate)) THEN "Fixed"
  ELSE "Suspended"

\* loadQuoteByDate ignoring forceRefresh
BranchIgnoresForce(obj, c, targetDate, forceRefresh) ==
  IF HasFixed(obj, KeyOfDate(targetDate)) THEN "Fixed"
  ELSE IF Cached(c, targetDate) THEN "Cached"
  ELSE "Suspended"

\* the branch loadQuoteByDate takes
Branch(obj, c, targetDate, forceRefresh) ==
  IF HasFixed(obj, KeyOfDate(targetDate)) THEN "Fixed"
  ELSE IF ~forceRefresh /\ Cached(c, targetDate) THEN "Cached"
  ELSE "Suspended"

\* loadQuoteByDate(targetDate, forceRefresh, silent) up to its return or its
\* await; op names the caller, dir its direction and arg the key it started
\* from (both for the record in last), sel is selectedDateKey as the caller
\* left it
loadQuoteByDate(op, dir, arg, targetDate, forceRefresh, silent, sel) ==
  LET dateKey == KeyOfDate(targetDate)
      ck == CacheKey(targetDate)
      branch == Branch(FIXED_QUOTES, cache, targetDate, forceRefresh)
      rec == [op |-> op, key |-> dateKey, ck |-> ck, force |-> forceRefresh,
              silent |-> silent, branch |-> branch, cacheBefore |-> cache,
              genBefore |-> genCalls, from |-> selectedDateKey, dir |-> dir,
              arg |-> arg]
  IN CASE branch = "Fixed" ->
            /\ currentQuote' = FixedQuote(FIXED_QUOTES, dateKey)
            /\ selectedDateKey' = dateKey
            /\ loading' = IF silent THEN loading ELSE FALSE
            /\ cache' = CacheAfterFixed(variant, cache, ck, FixedQuote(FIXED_QUOTES, dateKey))
            /\ UNCHANGED <<pending, genCalls, resolved>>
            /\ latest' = [key |-> dateKey, id |-> 0,
                          quote |-> FixedQuote(FIXED_QUOTES, dateKey)]
            /\ last' = rec @@ [quote |-> FixedQuote(FIXED_QUOTES, dateKey), id |-> 0]
       [] branch = "Cached" ->
            /\ currentQuote' = JSONParse(cache[ck])
            /\ selectedDateKey' = dateKey
            /\ loading' = IF silent THEN loading ELSE FALSE
            /\ UNCHANGED <<cache, pending, genCalls, resolved>>
            /\ latest' = [key |-> dateKey, id |-> 0, quote |-> JSONParse(cache[ck])]
            /\ last' = rec @@ [quote |-> JSONParse(cache[ck]), id |-> 0]
       [] branch = "Suspended" ->
            /\ genCalls < MaxGen
            /\ genCalls' = genCalls + 1
            /\ pending' = pending \cup
                 {[id |-> genCalls + 1, date |-> targetDate, dateKey |-> dateKey,
                   force |-> forceRefresh, silent |-> silent]}
            /\ selectedDateKey' = sel
            /\ loading' = IF silent THEN loading ELSE TRUE
            /\ UNCHANGED <<currentQuote, cache, resolved>>
            /\ latest' = [key |-> dateKey, id |-> genCalls + 1, quote |-> NoQuote]
            /\ last' = rec @@ [quote |-> NoQuote, id |-> genCalls + 1]

\* the rest of loadQuoteByDate with a request token: the answer to a
\* resolution that is no longer the latest one is dropped
CompleteUnlessSuperseded(r, response) ==
  LET quote == generateQuoteOfDay(FIXED_QUOTES, r.date, response).quote
      ck == CacheKey(r.date)
      current == latest.id = r.id
  IN /\ r \in pending
     /\ currentQuote' = IF current THEN quote ELSE currentQuote
     /\ selectedDateKey' = IF current THEN r.dateKey ELSE selectedDateKey
     /\ cache' = IF current THEN SetItem(cache, ck, JSONStringify(quote)) ELSE cache
     /\ loading' = IF current /\ ~r.silent THEN FALSE ELSE loading
     /\ pending' = pending \ {r}
     /\ resolved' = IF current THEN SetItem(resolved, ck, quote) ELSE resolved
     /\ latest' = IF current THEN [latest EXCEPT !.quote = quote] ELSE latest
     /\ last' = [op |-> "complete", key |-> r.dateKey, ck |-> ck, force |-> r.force,
                 silent |-> r.silent,
                 branch |-> IF AiFails(response) THEN "Fallback" ELSE "Generated",
                 cacheBefore |-> cache, genBefore |-> genCalls,
                 from |-> selectedDateKey, dir |-> "none", arg |-> Null,
                 quote |-> quote, id |-> r.id]
     /\ UNCHANGED <<variant, today, FIXED_QUOTES, bookmark, viewMode, readingMode,
                    mounted, genCalls, ops>>
     /\ UNCHANGED journal

\* the rest of loadQuoteByDate once generateQuoteOfDay has returned for the
\* suspended resolution r, response being what the AI call produced
Complete(r, response) ==
  LET quote == generateQuoteOfDay(FIXED_QUOTES, r.date, response).quote
      ck == CacheKey(r.date)
  IN /\ r \in pending
     /\ currentQuote' = quote
     /\ selectedDateKey' = r.dateKey
     /\ cache' = SetItem(cache, ck, JSONStringify(quote))
     /\ loading' = IF r.silent THEN loading ELSE FALSE
     /\ pending' = pending \ {r}
     /\ resolved' = SetItem(resolved, ck, quote)
     /\ latest' = IF latest.id = r.id THEN [latest EXCEPT !.quote = quote] ELSE latest
     /\ last' = [op |-> "complete", key |-> r.dateKey, ck |-> ck, force |-> r.force,
                 silent |-> r.silent,
                 branch |-> IF AiFails(response) THEN "Fallback" ELSE "Generated",
                 cacheBefore |-> cache, genBefore |-> genCalls,
                 from |-> selectedDateKey, dir |-> "none", arg |-> Null,
                 quote |-> quote, id |-> r.id]
     /\ UNCHANGED <<variant, today, FIXED_QUOTES, bookmark, viewMode, readingMode,
                    mounted, genCalls, ops>>
     /\ UNCHANGED journal

-----------------------------------------------------------------------------
(* The handlers of the App component *)

\* the QuoteCard is rendered: the main view, not loading, a quote to show
CardShown == viewMode = "main" /\ ~loading /\ currentQuote # NoQuote

\* useEffect(..., []): the stored favorites and notes are read, and today's
\* quote is loaded, silently in variant A
Mount ==
  /\ ~mounted
  /\ mounted' = TRUE
  /\ favorites' = IF storedFavorites # Null THEN JSONParseArray(storedFavorites)
                  ELSE favorites
  /\ notes' = IF storedNotes # Null THEN JSONParseObject(storedNotes) ELSE notes
  /\ loadQuoteByDate("mount", "none", Null, today, FALSE, variant = "A", selectedDateKey)
  /\ UNCHANGED <<variant, today, FIXED_QUOTES, bookmark, viewMode, readingMode, ops>>
  /\ UNCHANGED <<storedFavorites, storedNotes, noteText, isNoteModalOpen, openedFor>>

\* the key book mode opens on: the bookmark, or "1/1"
BookmarkOrFirst(b) == IF b # Null THEN b ELSE <<"1", "/", "1">>

\* handleModeChange(mode); r is Math.random() for the random mode
handleModeChange(mode, r) ==
  /\ mounted /\ ops < MaxOps
  /\ ~isNoteModalOpen
  /\ ops' = ops + 1
  /\ readingMode' = mode
  /\ viewMode' = "main"
  /\ CASE mode = "daily" ->
            loadQuoteByDate("daily", "none", Null, today, FALSE, FALSE, selectedDateKey)
       [] mode = "random" ->
            loadQuoteByDate("random", "none", getRandomQuoteKey(FIXED_QUOTES, r),
                            getDateFromKey(getRandomQuoteKey(FIXED_QUOTES, r), today),
                            FALSE, FALSE, selectedDateKey)
       [] mode = "book" ->
            loadQuoteByDate("book", "none", BookmarkOrFirst(bookmark),
                            getDateFromKey(BookmarkOrFirst(bookmark), today),
                            FALSE, FALSE, selectedDateKey)
  /\ UNCHANGED <<variant, today, FIXED_QUOTES, bookmark, mounted>>
  /\ UNCHANGED journal

ModeChange ==
  \E mode \in {"daily", "random", "book"} :
    \E r \in (IF mode = "random" THEN 0..(RandomGrain - 1) ELSE {0}) :
      handleModeChange(mode, r)

\* loadRandomQuote from the dice button of the card, shown in random mode
loadRandomQuote(r) ==
  /\ mounted /\ ops < MaxOps
  /\ ~isNoteModalOpen
  /\ CardShown /\ readingMode = "random"
  /\ ops' = ops + 1
  /\ loadQuoteByDate("random", "none", getRandomQuoteKey(FIXED_QUOTES, r),
                     getDateFromKey(getRandomQuoteKey(FIXED_QUOTES, r), today),
                     FALSE, FALSE, selectedDateKey)
  /\ UNCHANGED <<variant, today, FIXED_QUOTES, bookmark, viewMode, readingMode, mounted>>
  /\ UNCHANGED journal

RandomButton == \E r \in 0..(RandomGrain - 1) : loadRandomQuote(r)

\* the date handleBookNavigate moves to from the selected key
NextDate(key, direction, now) ==
  LET currentDate == getDateFromKey(key, now)
  IN SetDate(currentDate, GetDate(currentDate) + (IF direction = "next" THEN 1 ELSE -1))

\* handleBookNavigate storing the key it leaves instead of the key it goes to
handleBookNavigateFrom(direction) ==
  /\ mounted /\ ops < MaxOps
  /\ CardShown /\ readingMode = "book"
  /\ selectedDateKey # Null
  /\ ops' = ops + 1
  /\ LET nextDate == NextDate(selectedDateKey, direction, today)
     IN /\ bookmark' = selectedDateKey
        /\ loadQuoteByDate("navigate", direction, selectedDateKey, nextDate, FALSE, FALSE,
                           selectedDateKey)
  /\ UNCHANGED <<variant, today, FIXED_QUOTES, viewMode, readingMode, mounted>>
  /\ UNCHANGED journal

\* handleBookNavigate(direction), from the arrows, keys and swipes of the
\* card in book mode
handleBookNavigate(direction) ==
  /\ mounted /\ ops < MaxOps
  /\ CardShown /\ readingMode = "book"
  /\ selectedDateKey # Null
  /\ ops' = ops + 1
  /\ LET nextDate == NextDate(selectedDateKey, direction, today)
     IN /\ bookmark' = KeyOfDate(nextDate)
        /\ loadQuoteByDate("navigate", direction, selectedDateKey, nextDate, FALSE, FALSE,
                           selectedDateKey)
  /\ UNCHANGED <<variant, today, FIXED_QUOTES, viewMode, readingMode, mounted>>
  /\ UNCHANGED journal

BookNavigate == \E direction \in {"next", "prev"} : handleBookNavigate(direction)

\* handleDateSelect(dateKey)
handleDateSelect(dateKey) ==
  /\ mounted /\ ops < MaxOps
  /\ ~isNoteModalOpen
  /\ ops' = ops + 1
  /\ loadQuoteByDate("select", "none", dateKey, getDateFromKey(dateKey, today),
                     FALSE, FALSE, dateKey)
  /\ viewMode' = "main"
  /\ readingMode' = "daily"
  /\ UNCHANGED <<variant, today, FIXED_QUOTES, bookmark, mounted>>
  /\ UNCHANGED journal

\* a click on an entry of the list of all fixed quotes
ListSelect ==
  /\ viewMode = "list"
  /\ \E i \in 1..Len(FIXED_QUOTES) : handleDateSelect(ObjectKeys(FIXED_QUOTES)[i])

\* The key the favorites and notes views hand to handleDateSelect for an
\* entry stored under the ISO date iso: the first App component joins the
\* month and day fields of the ISO date as they stand (zero-padded), the
\* second one maps them through Number first.
entryDateKey(iso) ==
  LET parts == Split(iso, "-")
  IN IF variant = "A"
       THEN parts[2] \o <<"/">> \o parts[3]
       ELSE NumberToString(Number(parts[2])) \o <<"/">> \o NumberToString(Number(parts[3]))

\* a click on an entry of the favorites view
FavoriteSelect ==
  /\ viewMode = "favorites"
  /\ \E i \in 1..Len(favorites) : handleDateSelect(entryDateKey(favorites[i].date))

\* a click on the arrow of an entry of the notes view
NoteSelect ==
  /\ viewMode = "notes"
  /\ \E i \in 1..Len(notes) : handleDateSelect(entryDateKey(notes[i][1]))

\* the header buttons: setViewMode(viewMode === v ? 'main' : v)
ToggleView ==
  /\ mounted /\ ops < MaxOps
  /\ ~isNoteModalOpen
  /\ ops' = ops + 1
  /\ \E v \in {"list", "notes", "favorites"} :
       viewMode' = IF viewMode = v THEN "main" ELSE v
  /\ last' = [op |-> "view", key |-> Null, ck |-> <<>>, force |-> FALSE,
              silent |-> FALSE, branch |-> "None", cacheBefore |-> cache,
              genBefore |-> genCalls, from |-> selectedDateKey, dir |-> "none",
              arg |-> Null, quote |-> NoQuote, id |-> 0]
  /\ UNCHANGED <<variant, today, FIXED_QUOTES, cache, bookmark, currentQuote,
                 selectedDateKey, loading, readingMode, mounted, pending, genCalls,
                 resolved, latest>>
  /\ UNCHANGED journal

\* what a step on the notes or the favorites records in last: the note's key,
\* the text the step was given and the notes and favorites it found
JournalStep(op, noteKey, text) ==
  [op |-> op, key |-> Null, ck |-> <<>>, force |-> FALSE, silent |-> FALSE,
   branch |-> "None", cacheBefore |-> cache, genBefore |-> genCalls,
   from |-> selectedDateKey, dir |-> "none", arg |-> text, quote |-> currentQuote,
   id |-> 0, noteKey |-> noteKey, notesBefore |-> notes,
   favoritesBefore |-> favorites]

\* displayDate: the date of the card, today when no key is selected
displayDate == IF selectedDateKey # Null THEN getDateFromKey(selectedDateKey, today)
               ELSE today

currentNoteDateKey == getLocalDateString(displayDate)

\* toggleFavorite, from the star of the card
toggleFavorite ==
  /\ mounted /\ ops < MaxOps
  /\ ~isNoteModalOpen
  /\ CardShown
  /\ currentQuote # NoQuote
  /\ ops' = ops + 1
  /\ favorites' = newFavorites(favorites, currentQuote, selectedDateKey, today, ops + 1)
  /\ storedFavorites' = JSONStringifyArray(favorites')
  /\ last' = JournalStep("toggle", Null, currentQuote.quote)
  /\ UNCHANGED <<variant, today, FIXED_QUOTES, cache, bookmark, currentQuote,
                 selectedDateKey, loading, viewMode, readingMode, mounted, pending,
                 genCalls, resolved, notes, storedNotes, noteText, isNoteModalOpen,
                 openedFor, latest>>

\* the delete button of an entry of the favorites view (variant B)
removeFavorite(i) ==
  /\ mounted /\ ops < MaxOps
  /\ ~isNoteModalOpen
  /\ variant = "B" /\ viewMode = "favorites"
  /\ i \in 1..Len(favorites)
  /\ ops' = ops + 1
  /\ favorites' = WithoutQuote(favorites, favorites[i].data.quote)
  /\ storedFavorites' = JSONStringifyArray(favorites')
  /\ last' = JournalStep("remove", Null, favorites[i].data.quote)
  /\ UNCHANGED <<variant, today, FIXED_QUOTES, cache, bookmark, currentQuote,
                 selectedDateKey, loading, viewMode, readingMode, mounted, pending,
                 genCalls, resolved, notes, storedNotes, noteText, isNoteModalOpen,
                 openedFor, latest>>

RemoveFavorite == \E i \in 1..Len(favorites) : removeFavorite(i)

\* handleOpenNote, from the pen of the card
handleOpenNote ==
  /\ mounted
  /\ ~isNoteModalOpen
  /\ CardShown
  /\ noteText' = stripSignature(NoteOf(notes, currentNoteDateKey))
  /\ isNoteModalOpen' = TRUE
  /\ openedFor' = currentNoteDateKey
  /\ last' = JournalStep("open", currentNoteDateKey, NoteOf(notes, currentNoteDateKey))
  /\ UNCHANGED <<variant, today, FIXED_QUOTES, cache, bookmark, currentQuote,
                 selectedDateKey, loading, viewMode, readingMode, mounted, pending,
                 genCalls, ops, resolved, favorites, notes, storedFavorites,
                 storedNotes, latest>>

\* what the user may leave in the editor: blanks only, words with blanks
\* around them, other words, a text with a signature in its middle and a
\* text that ends with a signature
NoteInputs ==
  { <<" ", "\n">>,
    <<" ", "h", "i", "\n">>,
    <<"y", "o">>,
    appendSignature(<<"a">>, [y |-> 2023, m |-> 1, d |-> 5]) \o <<"b">>,
    appendSignature(<<"c">>, [y |-> 2023, m |-> 11, d |-> 25]) }

\* onChange of the editor: setNoteText(e.target.value)
setNoteText(text) ==
  /\ isNoteModalOpen
  /\ noteText' = text
  /\ last' = JournalStep("edit", currentNoteDateKey, text)
  /\ UNCHANGED <<variant, today, FIXED_QUOTES, cache, bookmark, currentQuote,
                 selectedDateKey, loading, viewMode, readingMode, mounted, pending,
                 genCalls, ops, resolved, favorites, notes, storedFavorites,
                 storedNotes, isNoteModalOpen, openedFor, latest>>

EditNote == \E text \in NoteInputs : setNoteText(text)

\* the close buttons of the editor: setIsNoteModalOpen(false)
CloseNote ==
  /\ isNoteModalOpen
  /\ isNoteModalOpen' = FALSE
  /\ last' = JournalStep("close", currentNoteDateKey, noteText)
  /\ UNCHANGED <<variant, today, FIXED_QUOTES, cache, bookmark, currentQuote,
                 selectedDateKey, loading, viewMode, readingMode, mounted, pending,
                 genCalls, ops, resolved, favorites, notes, storedFavorites,
                 storedNotes, noteText, openedFor, latest>>

\* handleSaveNote, from the save button of the editor
handleSaveNote ==
  /\ isNoteModalOpen
  /\ ops < MaxOps
  /\ ops' = ops + 1
  /\ LET newNotes ==
           IF Trim(noteText) = <<>> THEN Delete(notes, currentNoteDateKey)
           ELSE Assign(notes, currentNoteDateKey,
                       appendSignature(Trim(noteText), today))
     IN /\ notes' = newNotes
        /\ storedNotes' = JSONStringifyObject(newNotes)
  /\ isNoteModalOpen' = FALSE
  /\ last' = JournalStep("save", currentNoteDateKey, noteText)
  /\ UNCHANGED <<variant, today, FIXED_QUOTES, cache, bookmark, currentQuote,
                 selectedDateKey, loading, viewMode, readingMode, mounted, pending,
                 genCalls, resolved, favorites, storedFavorites, noteText, openedFor,
                 latest>>

\* generateQuoteOfDay returns to a suspended resolution
Completion == \E r \in pending : \E response \in AiResponses : Complete(r, response)

\* the dates a direct call of the resolver is made with
ResolveDates ==
  { [y |-> 2023, m |-> 1, d |-> 31], [y |-> 2023, m |-> 2, d |-> 1],
    [y |-> 2023, m |-> 3, d |-> 1] }

\* a direct call loadQuoteByDate(date, forceRefresh, silent); variant B has no
\* silent parameter
Resolve ==
  /\ mounted /\ ops < MaxOps
  /\ ops' = ops + 1
  /\ \E date \in ResolveDates : \E forceRefresh \in BOOLEAN :
       \E silent \in (IF variant = "A" THEN BOOLEAN ELSE {FALSE}) :
         loadQuoteByDate("resolve", "none", Null, date, forceRefresh, silent,
                         selectedDateKey)
  /\ UNCHANGED <<variant, today, FIXED_QUOTES, bookmark, viewMode, readingMode, mounted>>
  /\ UNCHANGED journal

Next ==
  \/ Mount
  \/ ModeChange
  \/ RandomButton
  \/ BookNavigate
  \/ ListSelect
  \/ ToggleView
  \/ Completion

\* the application as its user drives it
Spec == Init /\ [][Next]_vars

\* the resolver called directly, with either value of forceRefresh
NextResolver ==
  \/ Mount
  \/ Resolve
  \/ Completion

SpecResolver == Init /\ [][NextResolver]_vars

\* book mode is entered
EnterBook == handleModeChange("book", 0)

\* the note editor: the card is brought up with a fixed or a cached quote, and
\* notes are opened, edited and saved
NextNotes ==
  \/ Mount
  \/ EnterBook
  \/ handleOpenNote
  \/ EditNote
  \/ CloseNote
  \/ handleSaveNote

SpecNotes == Init /\ [][NextNotes]_vars

\* the favorites: the card is brought up and quotes are starred and removed
NextFavorites ==
  \/ Mount
  \/ EnterBook
  \/ Completion
  \/ ToggleView
  \/ toggleFavorite
  \/ RemoveFavorite

SpecFavorites == Init /\ [][NextFavorites]_vars

\* the list views: an entry of the dataset, of the favorites or of the notes
\* is opened from its view
NextLists ==
  \/ Mount
  \/ ToggleView
  \/ ListSelect
  \/ FavoriteSelect
  \/ NoteSelect
  \/ Completion

SpecLists == Init /\ [][NextLists]_vars

\* the note editor while resolutions are in flight: a generation may complete
\* between the opening of the editor and the save
NextNotesAsync ==
  \/ Mount
  \/ EnterBook
  \/ Completion
  \/ handleOpenNote
  \/ handleSaveNote

SpecNotesAsync == Init /\ [][NextNotesAsync]_vars

\* the favorites of the book: the reader turns pages and stars the quote shown
NextBookFavorites ==
  \/ Mount
  \/ EnterBook
  \/ BookNavigate
  \/ Completion
  \/ toggleFavorite

SpecBookFavorites == Init /\ [][NextBookFavorites]_vars

-----------------------------------------------------------------------------
(* Properties *)

\* the steps that are a call of loadQuoteByDate, up to its return or await
LoadOps == {"mount", "daily", "random", "book", "navigate", "select", "resolve"}

Loaded == last.op \in LoadOps

\* the cache entry of a key, <<>> when there is none
Entry(c, ck) == IF ck \in DOMAIN c THEN c[ck] ELSE <<>>

\* C1: a date whose key is in the fixed dataset resolves to exactly the fixed
\* text with empty author, meaning and tags, whatever forceRefresh is and
\* whatever the cache holds for the key
C1_FixedWins ==
  (Loaded /\ HasKey(FIXED_QUOTES, last.key)) =>
     /\ last.branch = "Fixed"
     /\ currentQuote.quote = Get(FIXED_QUOTES, last.key)
     /\ currentQuote.author = <<>>
     /\ currentQuote.meaning = <<>>
     /\ currentQuote.tags = <<>>
     /\ selectedDateKey = last.key

\* a forced resolution of a fixed date whose cache entry holds another quote
C1_Witness ==
  /\ last.op = "resolve" /\ last.force
  /\ HasKey(FIXED_QUOTES, last.key)
  /\ Entry(last.cacheBefore, last.ck) = JSONStringify(StaleQuote)
  /\ currentQuote.quote = Get(FIXED_QUOTES, last.key)

\* C2: for a date absent from the fixed dataset, a resolution that finds no
\* cache entry invokes the generator once and its completion stores the
\* result under the date's key; a following resolution of the key without
\* forceRefresh returns that stored value and invokes nothing
C2_GenerateOnceThenCached ==
  /\ (Loaded /\ ~HasKey(FIXED_QUOTES, last.key) /\ last.ck \notin DOMAIN last.cacheBefore) =>
        /\ last.branch = "Suspended"
        /\ genCalls = last.genBefore + 1
        /\ \E r \in pending : r.id = last.id /\ r.dateKey = last.key
  /\ (last.op = "complete") =>
        /\ Entry(cache, last.ck) = JSONStringify(last.quote)
        /\ currentQuote = last.quote
        /\ \A ck \in DOMAIN cache \ {last.ck} : Entry(last.cacheBefore, ck) = cache[ck]
  /\ (Loaded /\ ~last.force /\ ~HasKey(FIXED_QUOTES, last.key)
        /\ last.ck \in DOMAIN resolved) =>
        /\ last.branch = "Cached"
        /\ currentQuote = resolved[last.ck]
        /\ genCalls = last.genBefore
        /\ cache = last.cacheBefore

\* one generation so far, completed, and the same key resolved again from the
\* cache
C2_Witness ==
  /\ Loaded /\ ~last.force /\ last.branch = "Cached"
  /\ last.ck \in DOMAIN resolved
  /\ genCalls = 1 /\ pending = {}
  /\ currentQuote \in AiQuotes

\* C3: when generation fails the resolver returns the fallback quote and
\* leaves the cache entry of the key as it was
C3_FailureNotCached ==
  (last.op = "complete" /\ last.branch = "Fallback") =>
     /\ currentQuote = FallbackQuote
     /\ Entry(cache, last.ck) = Entry(last.cacheBefore, last.ck)

\* C4: a resolution of a dataset-absent date with forceRefresh invokes the
\* generator even when the key is cached, and a successful completion
\* replaces the cache entry with the new result
C4_ForceRefreshGenerates ==
  /\ (Loaded /\ last.force /\ ~HasKey(FIXED_QUOTES, last.key)) =>
        /\ last.branch = "Suspended"
        /\ genCalls = last.genBefore + 1
        /\ \E r \in pending : r.id = last.id /\ r.dateKey = last.key
  /\ (last.op = "complete" /\ last.force /\ last.branch = "Generated") =>
        /\ last.quote \in AiQuotes
        /\ Entry(cache, last.ck) = JSONStringify(last.quote)

\* a forced resolution of a cached key completed with a new quote
C4_Witness ==
  /\ last.op = "complete" /\ last.force /\ last.branch = "Generated"
  /\ last.ck \in DOMAIN last.cacheBefore
  /\ Entry(cache, last.ck) # Entry(last.cacheBefore, last.ck)

\* C5: a resolution whose generation fails still completes, with the one
\* fallback text and empty author, meaning and tags
C5_FailureYieldsFallback ==
  (last.op = "complete" /\ last.branch = "Fallback") =>
     /\ currentQuote.quote = <<"F", "B">>
     /\ currentQuote.author = <<>>
     /\ currentQuote.meaning = <<>>
     /\ currentQuote.tags = <<>>
     /\ selectedDateKey = last.key
     /\ \A r \in pending : r.id # last.id
     /\ (~last.silent => ~loading)

\* a generation that was rejected has completed
C5_Witness ==
  /\ last.op = "complete" /\ last.branch = "Fallback"
  /\ currentQuote.quote = <<"F", "B">>
  /\ ~HasKey(FIXED_QUOTES, last.key)

\* C6: resolving a date of the fixed dataset invokes no generation and
\* leaves every cache entry as it was
C6_FixedLeavesCache ==
  (Loaded /\ HasKey(FIXED_QUOTES, last.key)) =>
     /\ genCalls = last.genBefore
     /\ cache = last.cacheBefore

\* the calendar neighbours of the day <<m, d>> in the year y
CalendarNext(y, m, d) ==
  IF d < DaysInMonth(y, m) THEN <<m, d + 1>>
  ELSE IF m = 12 THEN <<1, 1>> ELSE <<m + 1, 1>>

CalendarPrev(y, m, d) ==
  IF d > 1 THEN <<m, d - 1>>
  ELSE IF m = 1 THEN <<12, 31>> ELSE <<m - 1, DaysInMonth(y, m - 1)>>

\* the key of the calendar neighbour of a key, in today's year
NeighbourKey(key, direction) ==
  LET m == Number(Split(key, "/")[1])
      d == Number(Split(key, "/")[2])
      n == IF direction = "next" THEN CalendarNext(today.y, m, d)
           ELSE CalendarPrev(today.y, m, d)
  IN DateKeyOf(n[1], n[2])

\* the key a navigation from key in the direction selects
NavigatedKey(key, direction) == KeyOfDate(NextDate(key, direction, today))

\* the card can be navigated
CanNavigate == mounted /\ CardShown /\ readingMode = "book" /\ selectedDateKey # Null

\* C7: from any displayed day, next then prev, and prev then next, lead back
\* to that day
C7_NavigationRoundTrip ==
  CanNavigate =>
     /\ NavigatedKey(NavigatedKey(selectedDateKey, "next"), "prev") = selectedDateKey
     /\ NavigatedKey(NavigatedKey(selectedDateKey, "prev"), "next") = selectedDateKey

\* C8: one navigation moves to exactly the calendar successor or predecessor
\* of the selected key
C8_NavigationNeighbour ==
  (last.op = "navigate") =>
     /\ last.key = NeighbourKey(last.from, last.dir)
     /\ bookmark = NeighbourKey(last.from, last.dir)
     /\ (last.branch # "Suspended" => selectedDateKey = NeighbourKey(last.from, last.dir))

\* C9 as stated: the random key is always a key of the fixed dataset
C9_RandomKeyPresent ==
  (last.op = "random") => HasKey(FIXED_QUOTES, last.arg)

\* C9, amended: when the fixed dataset is not empty, the random key is one of
\* its keys
C9_RandomKeyPresentIfAny ==
  (Len(FIXED_QUOTES) > 0) =>
     /\ \A r \in 0..(RandomGrain - 1) :
           HasKey(FIXED_QUOTES, getRandomQuoteKey(FIXED_QUOTES, r))
     /\ (last.op = "random") => HasKey(FIXED_QUOTES, last.arg)

\* a random load picked the second key of the dataset
C9_Witness ==
  /\ last.op = "random"
  /\ Len(FIXED_QUOTES) > 1
  /\ last.arg = ObjectKeys(FIXED_QUOTES)[2]

\* C10: with an empty fixed dataset the random key is "1/1", and the random
\* load resolves 1/1 from the cache or by generation
C10_EmptyDatasetRandom ==
  (last.op = "random" /\ Len(FIXED_QUOTES) = 0) =>
     /\ last.arg = <<"1", "/", "1">>
     /\ last.key = <<"1", "/", "1">>
     /\ last.ck = <<1, 1>>
     /\ last.branch \in {"Cached", "Suspended"}
     /\ (last.branch = "Cached" =>
           /\ currentQuote = JSONParse(last.cacheBefore[<<1, 1>>])
           /\ selectedDateKey = <<"1", "/", "1">>
           /\ ~loading)
     /\ (last.branch = "Suspended" =>
           \E r \in pending : r.id = last.id /\ r.dateKey = <<"1", "/", "1">>)

\* a random load on an empty dataset is waiting for the generation of 1/1
C10_Witness ==
  /\ last.op = "random" /\ Len(FIXED_QUOTES) = 0
  /\ last.branch = "Suspended"
  /\ \E r \in pending : r.dateKey = <<"1", "/", "1">>

\* C11: the stored text of a note never carries more than one signature
\* suffix: with one signature taken off its end, no signature is left there
C11_AtMostOneSignature ==
  \A i \in 1..Len(notes) :
     LET rest == stripSignature(notes[i][2])
     IN \A k \in 1..Len(rest) : ~IsSignature(SubSeq(rest, k, Len(rest)))

\* the texts of the editor, trimmed
TrimmedInputs == { Trim(t) : t \in NoteInputs }

\* C12: taking the signature off a text it was just appended to gives the
\* text back, for "hello" signed on 2024-3-5 and for every text saved and
\* opened again that does not itself end with a signature
C12_RoundTrip ==
  /\ stripSignature(appendSignature(<<"h", "e", "l", "l", "o">>,
                                    [y |-> 2024, m |-> 3, d |-> 5]))
       = <<"h", "e", "l", "l", "o">>
  /\ \A t \in TrimmedInputs :
        (\A k \in 1..Len(t) : ~IsSignature(SubSeq(t, k, Len(t)))) =>
           stripSignature(appendSignature(t, today)) = t
  /\ (last.op = "open") =>
        \A t \in TrimmedInputs :
           (/\ \A k \in 1..Len(t) : ~IsSignature(SubSeq(t, k, Len(t)))
            /\ last.arg = appendSignature(t, today)) => noteText = t

\* a note saved as " hi\n" in this session is open again, the editor shows "hi"
C12_Witness ==
  /\ last.op = "open"
  /\ last.arg = appendSignature(<<"h", "i">>, today)
  /\ noteText = <<"h", "i">>
  /\ isNoteModalOpen

\* the signature of the session's day, spelled out
TodaySignature ==
  IF today = [y |-> 2023, m |-> 1, d |-> 31]
  THEN <<"\n", "\n", " ", EmDash, " ", "2", "0", "2", "3", ".", " ", "1", ".", " ",
         "3", "1", ".">>
  ELSE <<"\n", "\n", " ", EmDash, " ", "2", "0", "2", "4", ".", " ", "2", ".", " ",
         "2", "8", ".">>

\* the saved text without the blanks around it, spelled out
TrimmedText(t) ==
  IF t = <<" ", "h", "i", "\n">> THEN <<"h", "i">>
  ELSE IF t = <<" ", "\n">> THEN <<>>
  ELSE t

\* C13: saving a text that is not blank stores the trimmed text followed by
\* "\n\n -- Y. M. D." with the plain numbers of the current date, in memory
\* and in the persisted notes; "hello" on 2024-3-5 gives "hello\n\n -- 2024. 3. 5."
C13_SavedText ==
  /\ appendSignature(<<"h", "e", "l", "l", "o">>, [y |-> 2024, m |-> 3, d |-> 5])
       = <<"h", "e", "l", "l", "o", "\n", "\n", " ", EmDash, " ",
           "2", "0", "2", "4", ".", " ", "3", ".", " ", "5", ".">>
  /\ (last.op = "save" /\ TrimmedText(last.arg) # <<>>) =>
        /\ HasKey(notes, last.noteKey)
        /\ Get(notes, last.noteKey) = TrimmedText(last.arg) \o TodaySignature
        /\ storedNotes # Null
        /\ NoteOf(JSONParseObject(storedNotes), last.noteKey)
             = TrimmedText(last.arg) \o TodaySignature

\* " hi\n" was saved on 2024-2-28
C13_Witness ==
  /\ last.op = "save"
  /\ last.arg = <<" ", "h", "i", "\n">>
  /\ NoteOf(notes, last.noteKey)
       = <<"h", "i", "\n", "\n", " ", EmDash, " ", "2", "0", "2", "4", ".", " ", "2",
           ".", " ", "2", "8", ".">>

\* C14: saving a text that is blank after trimming removes the entry of the
\* date from the notes, in memory and in the persisted notes, and stores no
\* empty or signature-only text
C14_BlankSaveDeletes ==
  (last.op = "save" /\ TrimmedText(last.arg) = <<>>) =>
     /\ ~HasKey(notes, last.noteKey)
     /\ storedNotes # Null
     /\ ~HasKey(JSONParseObject(storedNotes), last.noteKey)
     /\ \A i \in 1..Len(notes) : ~IsSignature(notes[i][2]) /\ notes[i][2] # <<>>

\* a blank text was saved for a date that had a note
C14_Witness ==
  /\ last.op = "save"
  /\ last.arg = <<" ", "\n">>
  /\ HasKey(last.notesBefore, last.noteKey)
  /\ ~HasKey(notes, last.noteKey)

\* the texts the replacement is tried on: the stored notes as they are, and
\* the texts of the editor
StripTexts(obj) == { obj[i][2] : i \in 1..Len(obj) } \cup NoteInputs \cup {<<>>}

\* what taking one trailing signature off a text gives
StrippedOnce(text, result) ==
  IF \E k \in 1..Len(text) : IsSignature(SubSeq(text, k, Len(text)))
  THEN \E k \in 1..Len(text) :
         /\ IsSignature(SubSeq(text, k, Len(text)))
         /\ result = SubSeq(text, 1, k - 1)
  ELSE result = text

\* C15: the replacement takes a signature off only where it ends the text,
\* and only that one; a text that does not end with a signature, one with a
\* signature in its middle included, comes back unchanged
C15_StripOnlyTrailing ==
  /\ \A text \in StripTexts(notes) : StrippedOnce(text, stripSignature(text))
  /\ (last.op = "open") => StrippedOnce(last.arg, noteText)

\* the editor was opened on a note that has a signature in its middle and one
\* at its end: only the one at the end is gone
C15_Witness ==
  /\ last.op = "open"
  /\ last.arg = appendSignature(
                  appendSignature(<<"a">>, [y |-> 2023, m |-> 1, d |-> 5]) \o <<"b">>,
                  today)
  /\ noteText = appendSignature(<<"a">>, [y |-> 2023, m |-> 1, d |-> 5]) \o <<"b">>

\* C16: no two favorites have the same quote text; a toggle of a text that is
\* saved removes every entry with it, a toggle of another text adds one entry
C16_FavoritesUnique ==
  /\ \A i, j \in 1..Len(favorites) :
        i # j => favorites[i].data.quote # favorites[j].data.quote
  /\ (last.op = "toggle") =>
        IF \E i \in 1..Len(last.favoritesBefore) :
             last.favoritesBefore[i].data.quote = last.arg
        THEN /\ \A i \in 1..Len(favorites) : favorites[i].data.quote # last.arg
             /\ Len(favorites) = Len(last.favoritesBefore) - 1
        ELSE /\ Len(favorites) = Len(last.favoritesBefore) + 1
             /\ Cardinality({i \in 1..Len(favorites) :
                               favorites[i].data.quote = last.arg}) = 1

\* a quote starred in this session under one date was shown again under
\* another date, and the toggle there removed it
C16_Witness ==
  /\ last.op = "toggle"
  /\ Len(last.favoritesBefore) = 1
  /\ last.favoritesBefore[1].data.quote = last.arg
  /\ last.favoritesBefore[1].date # currentNoteDateKey
  /\ favorites = <<>>

\* C17: a toggle that adds a favorite puts it last, and a removal leaves the
\* others in the order they had
C17_InsertionOrder ==
  (last.op \in {"toggle", "remove"}) =>
     IF \E i \in 1..Len(last.favoritesBefore) :
          last.favoritesBefore[i].data.quote = last.arg
     THEN \E k \in 1..Len(last.favoritesBefore) :
            /\ last.favoritesBefore[k].data.quote = last.arg
            /\ favorites = SubSeq(last.favoritesBefore, 1, k - 1)
                             \o SubSeq(last.favoritesBefore, k + 1,
                                       Len(last.favoritesBefore))
     ELSE /\ Len(favorites) = Len(last.favoritesBefore) + 1
          /\ SubSeq(favorites, 1, Len(last.favoritesBefore)) = last.favoritesBefore
          /\ favorites[Len(favorites)].data = last.quote

\* a fourth favorite was added at the end, and then the first was removed
C17_Witness ==
  /\ last.op = "toggle"
  /\ Len(last.favoritesBefore) = 4
  /\ last.favoritesBefore[4].viewedAt > 0
  /\ last.favoritesBefore[1].data.quote = last.arg
  /\ favorites = SubSeq(last.favoritesBefore, 2, 4)

\* C18: a book navigation writes the key of the date it goes to into the
\* bookmark when it starts the resolution of that date: the bookmark names
\* the date while the resolution is suspended, and no completion changes it
C18_BookmarkBeforeResolution ==
  [][ /\ (last'.op = "navigate") =>
           /\ bookmark' = last'.key
           /\ (last'.branch = "Suspended" =>
                 \E r \in pending' : r.id = last'.id /\ r.dateKey = bookmark')
           /\ (last'.branch # "Suspended" => selectedDateKey' = bookmark')
      /\ (last'.op = "complete") => bookmark' = bookmark
    ]_vars

\* a navigation went to a date that had to be generated, and the generation
\* has completed: the card shows the date the bookmark names
C18_Witness ==
  /\ last.op = "complete"
  /\ readingMode = "book"
  /\ bookmark \notin {Null, <<"1", "/", "1">>, <<"3", "/", "1">>}
  /\ last.key = bookmark
  /\ selectedDateKey = bookmark
  /\ pending = {}

\* C19: entering book mode resolves the date of the bookmark, or 1/1 when
\* there is none, and only a book navigation changes the bookmark
C19_BookModeOpensBookmark ==
  [][ /\ (last'.op = "book") =>
           last'.key = (IF bookmark = Null THEN <<"1", "/", "1">> ELSE bookmark)
      /\ (last'.op # "navigate") => bookmark' = bookmark
    ]_vars

\* C20: a cache entry is never removed, and only a resolution with
\* forceRefresh changes the value of an entry that exists
C20_CacheEntriesStable ==
  \A ck \in DOMAIN last.cacheBefore :
     /\ ck \in DOMAIN cache
     /\ (cache[ck] # last.cacheBefore[ck]) => last.force

\* a DateKey: "M/D" without zero padding, month 1..12, day 1..31
IsDateKey(k) == \E m \in 1..12, d \in 1..31 : k = DateKeyOf(m, d)

\* C21: every DateKey the application holds or persists (the selected key, the
\* bookmark, the key of the latest resolution, the keys of the resolutions in
\* flight) is the unpadded "M/D" key, at every moment, also while a resolution
\* started from the favorites or notes view is in flight.
C21_KeysUnpadded ==
  /\ selectedDateKey # Null => IsDateKey(selectedDateKey)
  /\ bookmark # Null => IsDateKey(bookmark)
  /\ Loaded => IsDateKey(last.key)
  /\ \A r \in pending : IsDateKey(r.dateKey)

\* C22: when resolutions overlap, once all of them have completed the displayed
\* quote and the selected DateKey are those of the resolution initiated most
\* recently, whatever the order in which they completed.
C22_LatestInitiatedWins ==
  (mounted /\ pending = {} /\ latest.key # Null) =>
     /\ selectedDateKey = latest.key
     /\ currentQuote = latest.quote

\* C23: generation is not deduplicated per DateKey: a resolution of a key that
\* is neither fixed nor cached calls the generator even while another
\* resolution of the same key is in flight, each of them writes the cache
\* entry when it completes, and the entry holds the write that came last.
C23_NoDeduplication ==
  /\ ( /\ Loaded
       /\ ~HasFixed(FIXED_QUOTES, last.key)
       /\ Entry(last.cacheBefore, last.ck) = <<>>
       /\ \E r \in pending : r.dateKey = last.key /\ r.id # last.id )
     => /\ last.branch = "Suspended"
        /\ genCalls = last.genBefore + 1
        /\ \E r \in pending : r.dateKey = last.key /\ r.id = last.id
  /\ (last.op = "complete") =>
        /\ last.ck \in DOMAIN cache
        /\ cache[last.ck] = <<"{", last.quote.quote, last.quote.author,
                              last.quote.meaning, last.quote.tags, "}">>

\* two resolutions of one key overlapped, the one initiated second completed
\* first, and the completion of the first has replaced the entry it wrote
C23_Witness ==
  /\ last.op = "complete"
  /\ last.id = 1
  /\ latest.id = 2
  /\ latest.key = last.key
  /\ pending = {}
  /\ genCalls = 2
  /\ last.ck \in DOMAIN last.cacheBefore
  /\ last.cacheBefore[last.ck] # cache[last.ck]
  /\ cache[last.ck] = JSONStringify(last.quote)

\* the cache differs from the cache before at the key ck only, where it holds
\* text
WritesOnly(before, after, ck, text) ==
  /\ DOMAIN after = DOMAIN before \cup {ck}
  /\ after[ck] = text
  /\ \A k \in DOMAIN before \ {ck} : after[k] = before[k]

\* C24: there is no cancellation: a resolution in flight stays in flight
\* until its own completion, also after a later resolution has superseded it,
\* and its completion writes the cache entry of its own DateKey and no other.
C24_NoCancellation ==
  [][ \A r \in pending :
         \/ r \in pending'
         \/ /\ last'.op = "complete"
            /\ last'.id = r.id
            /\ last'.key = r.dateKey
            /\ WritesOnly(cache, cache', <<r.date.m, r.date.d>>,
                          <<"{", last'.quote.quote, last'.quote.author,
                            last'.quote.meaning, last'.quote.tags, "}">>)
    ]_vars

\* a superseded resolution has completed and written the entry of its key,
\* which is not the key of the resolution initiated after it
C24_Witness ==
  /\ last.op = "complete"
  /\ latest.id # last.id
  /\ latest.key # Null
  /\ latest.key # last.key
  /\ last.ck \in DOMAIN cache
  /\ last.ck \notin DOMAIN last.cacheBefore
  /\ cache[last.ck] = JSONStringify(last.quote)

\* a DateKey that names a day of the year y
IsValidKey(k, y) ==
  \E m \in 1..12 : \E d \in 1..DaysInMonth(y, m) : k = DateKeyOf(m, d)

\* C25: getDateFromKey is a right inverse of the DateKey computation: the date
\* it returns for a valid key has that key, whatever today's date is, so a
\* resolution started from a key (the bookmark, a list entry, the random key)
\* resolves that key.
C25_DateFromKeyInverse ==
  (last.op \in {"book", "select", "random"} /\ IsValidKey(last.arg, today.y)) =>
     /\ KeyOfDate(getDateFromKey(last.arg, today)) = last.arg
     /\ last.key = last.arg

\* C26: a note is stored under the ISO date the editor was opened on, also
\* when a resolution completes and changes the selected key while the editor
\* is open.
C26_SavedUnderOpenedDate ==
  (last.op = "save") => last.noteKey = openedFor

\* C27: whenever no resolution is in flight (every resolution initiated, the
\* load on mount included, has completed) loading is false.
C27_IdleNotLoading ==
  (mounted /\ pending = {}) => ~loading

\* the quote a DateKey resolves to in the current state: its fixed text, or
\* else its cache entry
ResolvedFor(k) ==
  LET ck == <<Number(Split(k, "/")[1]), Number(Split(k, "/")[2])>>
  IN IF HasFixed(FIXED_QUOTES, k) THEN Quote(Get(FIXED_QUOTES, k), <<>>, <<>>, <<>>)
     ELSE IF ck \in DOMAIN cache THEN JSONParse(cache[ck])
     ELSE NoQuote

\* the ISO date of the day a DateKey names in today's year
IsoOfKey(k) ==
  NumberToString(today.y) \o <<"-">>
    \o PadStart(NumberToString(Number(Split(k, "/")[1])), 2, "0") \o <<"-">>
    \o PadStart(NumberToString(Number(Split(k, "/")[2])), 2, "0")

\* C28: whenever loading is false and a quote is displayed, the quote is the
\* one resolved for the selected DateKey, so a favorite added at that moment
\* records that quote together with the date of the selected key.
C28_DisplayedBelongsToSelected ==
  /\ (mounted /\ ~loading /\ currentQuote # NoQuote /\ selectedDateKey # Null) =>
        currentQuote = ResolvedFor(selectedDateKey)
  /\ ( /\ last.op = "toggle"
       /\ Len(favorites) > Len(last.favoritesBefore)
       /\ selectedDateKey # Null ) =>
        /\ favorites[Len(favorites)].data = ResolvedFor(selectedDateKey)
        /\ favorites[Len(favorites)].date = IsoOfKey(selectedDateKey)

\* the texts of a list of favorites
Texts(favs) == {favs[i].data.quote : i \in 1..Len(favs)}

\* C29: toggleFavorite is an involution on membership: two toggles in a row on
\* the displayed quote restore the set of favorite texts, the first one having
\* flipped the membership of the displayed text; and after every toggle the
\* persisted favorites value is the serialisation of the in-memory list.
C29_ToggleInvolution ==
  [][ (last'.op = "toggle") =>
         /\ storedFavorites' = <<"[">> \o favorites' \o <<"]">>
         /\ (currentQuote.quote \in Texts(favorites'))
               = (currentQuote.quote \notin Texts(favorites))
         /\ (last.op = "toggle") => Texts(favorites') = Texts(last.favoritesBefore)
    ]_vars

\* the displayed quote was starred and, by the very next operation, unstarred
\* again, with no resolution in between: the list is as it was before
C29_Witness ==
  /\ last.op = "toggle"
  /\ genCalls = 0
  /\ \E i \in 1..Len(last.favoritesBefore) :
        /\ last.favoritesBefore[i].data.quote = currentQuote.quote
        /\ last.favoritesBefore[i].viewedAt = ops - 1
  /\ currentQuote.quote \notin Texts(favorites)
  /\ Len(favorites) = 3
  /\ storedFavorites = JSONStringifyArray(favorites)

\* the keys of a notes object
NoteKeys(obj) == {obj[i][1] : i \in 1..Len(obj)}

\* C30: saving or deleting a note changes the entry of the note's own ISO
\* date only (the date the save writes under, which is the date of the card):
\* every other note, the favorites, the bookmark and the cache are as they
\* were.
C30_SaveTouchesOwnEntry ==
  [][ (last'.op = "save") =>
         /\ last'.noteKey = getLocalDateString(displayDate)
         /\ \A k \in (NoteKeys(notes) \cup NoteKeys(notes')) \ {last'.noteKey} :
               /\ k \in NoteKeys(notes) /\ k \in NoteKeys(notes')
               /\ NoteOf(notes', k) = NoteOf(notes, k)
         /\ favorites' = favorites
         /\ storedFavorites' = storedFavorites
         /\ bookmark' = bookmark
         /\ cache' = cache
    ]_vars

\* a note was saved for a day while the note of another day existed, and
\* that one is still there with its text
C30_Witness ==
  /\ last.op = "save"
  /\ HasKey(notes, openedFor)
  /\ \E k \in NoteKeys(last.notesBefore) \ {openedFor} :
        /\ NoteOf(last.notesBefore, k) # <<>>
        /\ NoteOf(notes, k) = NoteOf(last.notesBefore, k)
  /\ favorites = last.favoritesBefore
  /\ cache = last.cacheBefore

====
